---- MODULE Spec2Model ----
(***************************************************************************)
(* A model of the aster-scheduler pipeline: the jobs and runs tables, the  *)
(* cron engine, the scheduler loop (internal/scheduler/scheduler.go) and   *)
(* the worker loop (internal/worker/worker.go).  Every store call is one   *)
(* SQL statement, hence one atomic step; a loop iteration that makes       *)
(* several store calls is a sequence of steps other processes interleave.  *)
(* Instants are integers (one unit = one minute); an optional column (a   *)
(* pointer field of the Go struct) is a set with at most one element, {}   *)
(* being NULL.                                                             *)
(***************************************************************************)
EXTENDS Integers, Sequences, FiniteSets, TLC

\* ---------------------------------------------------------------- bounds
MaxJobs == 2
MaxRuns == 2
MaxTime == 2
MaxWorkers == 2
MaxSchedulers == 2
MaxApiCalls == 2

JobIds == 1..MaxJobs
RunIds == 1..MaxRuns
WorkerIds == 1..MaxWorkers
SchedulerIds == 1..MaxSchedulers

\* ---------------------------------------------------------------- types
JobStatusActive == "active"
JobStatusInactive == "inactive"
JobStatusArchived == "archived"
JobStatuses == {JobStatusActive, JobStatusInactive, JobStatusArchived}

RunStatusScheduled == "scheduled"
RunStatusClaimed == "claimed"
RunStatusRunning == "running"
RunStatusSucceeded == "succeeded"
RunStatusFailed == "failed"
RunStatusCancelled == "cancelled"
RunStatusTimedOut == "timed_out"
TerminalStatuses ==
  {RunStatusSucceeded, RunStatusFailed, RunStatusCancelled, RunStatusTimedOut}

\* The order of the status diagram: scheduled < claimed < running < terminal.
StatusRank(st) ==
  CASE st = RunStatusScheduled -> 0
    [] st = RunStatusClaimed -> 1
    [] st = RunStatusRunning -> 2
    [] OTHER -> 3

\* ---------------------------------------------------------------- cron engine
EveryMinute == "* * * * *"
EveryTwoMinutes == "*/2 * * * *"
NeverFires == "0 0 30 2 *"
Unparseable == "invalid"
CronExprs == {EveryMinute, EveryTwoMinutes, NeverFires, Unparseable}

\* The expressions of the engine's tests.  An instant is a number of minutes
\* since 2024-01-01T00:00:00Z; the tests ask from 12:00:00 of that day.
EveryFiveMinutes == "*/5 * * * *"
DailyAtMidnight == "0 0 * * *"
Hourly == "@hourly"
TooManyFields == "0 0 0 0 0 0 0"
TestCronExprs ==
  {EveryMinute, EveryFiveMinutes, DailyAtMidnight, Hourly, Unparseable, TooManyFields}
TestTime == 720

\* parser.Parse: the expressions the cron engine accepts (five fields, an
\* optional seconds field before them, or a descriptor).
Parses(expr) ==
  expr \in {EveryMinute, EveryTwoMinutes, NeverFires,
            EveryFiveMinutes, DailyAtMidnight, Hourly}

\* The distance in minutes between two firings of a parseable, firing
\* expression; its firings are the multiples of that distance.
Period(expr) ==
  CASE expr = EveryTwoMinutes -> 2
    [] expr = EveryFiveMinutes -> 5
    [] expr = Hourly -> 60
    [] expr = DailyAtMidnight -> 1440
    [] OTHER -> 1

\* schedule.Next as an engine that counts `from` itself when it is a firing.
ScheduleNextInclusive(expr, from) ==
  IF expr = NeverFires
    THEN {}
    ELSE {Period(expr) * ((from + Period(expr) - 1) \div Period(expr))}

\* schedule.Next as an engine that returns the latest firing up to `from`.
ScheduleNextPrevious(expr, from) ==
  IF expr = NeverFires
    THEN {}
    ELSE {Period(expr) * (from \div Period(expr))}

\* schedule.Next(from): the first firing instant strictly after `from`;
\* {} is the zero time (no firing within the engine's search horizon).
ScheduleNext(expr, from) ==
  IF expr = NeverFires
    THEN {}
    ELSE {Period(expr) * ((from \div Period(expr)) + 1)}

ParserAndNext(cronExpr, fromTime) ==
  IF ~Parses(cronExpr)
    THEN [err |-> "invalid cron expression", t |-> {}]
    ELSE IF ScheduleNext(cronExpr, fromTime) = {}
      THEN [err |-> "will never trigger", t |-> {}]
      ELSE [err |-> "none", t |-> ScheduleNext(cronExpr, fromTime)]

\* The loop of GetNextNRuns: up to n times, the next firing after the last
\* one found; a zero time ends the loop.
RECURSIVE NextRuns(_, _, _)
NextRuns(expr, currentTime, n) ==
  IF n = 0 \/ ScheduleNext(expr, currentTime) = {}
    THEN <<>>
    ELSE LET nextRun == CHOOSE x \in ScheduleNext(expr, currentTime) : TRUE
         IN <<nextRun>> \o NextRuns(expr, nextRun, n - 1)

GetNextNRuns(cronExpr, fromTime, n) ==
  IF ~Parses(cronExpr)
    THEN [err |-> "invalid cron expression", runs |-> <<>>]
    ELSE [err |-> "none", runs |-> NextRuns(cronExpr, fromTime, n)]

\* ---------------------------------------------------------------- state
VARIABLES
  now,    \* the wall clock (time.Now() of the processes, NOW() of the database)
  jobs,   \* the jobs table: job id -> row
  runs,   \* the runs table: run id -> row; ids grow in creation order
  sched,  \* per scheduler process: its position in Run / checkAndScheduleDueJobs
  wk,     \* per worker process: its position in Run / checkAndExecuteRuns
  calls,  \* the number of job API calls made so far (bounded by MaxApiCalls)
  lastCall \* the last call a client made on a store, with what it returned

vars == <<now, jobs, runs, sched, wk, calls, lastCall>>

\* ---------------------------------------------------------------- helpers
Min(a, b) == IF a <= b THEN a ELSE b

\* The sequences that list every element of the finite set S exactly once.
Orderings(S) ==
  {q \in [1..Cardinality(S) -> S] : \A i, k \in DOMAIN q : i # k => q[i] # q[k]}

\* ---------------------------------------------------------------- contexts
\* The context a process passes to Run: live until main calls cancel().
CtxLive == "live"
CtxCancelled == "cancelled"

\* A store call that goes through although its context is cancelled.
StoreCallIgnoringCtx(ctx, dbOk) == dbOk

\* s.pool.Exec / Query / QueryRow (ctx, ...): the call reaches the database
\* only if the context is live (the pool refuses a connection to a context
\* that is done); dbOk = FALSE is any other storage error.
StoreCall(ctx, dbOk) == dbOk /\ ctx = CtxLive

\* ---------------------------------------------------------------- job store
\* The row INSERT INTO jobs writes: next_run_at is not among the inserted
\* columns, so it is NULL; created_at defaults to NOW().
\* max_retries is stored as given; the handler and the column default it to 3.
DefaultMaxRetries == 3

\* encoding/json on the two JSONB columns.  json.Marshal writes a []string as
\* the array text: "[", the elements in order, "]"; json.Unmarshal reads the
\* elements between the brackets.
MarshalArgs(args) == <<"[">> \o args \o <<"]">>
UnmarshalArgs(text) == SubSeq(text, 2, Len(text) - 1)

\* A map[string]string is written as the object text, one name/value member
\* per key (the members of an object are unordered), and read back into a
\* map that holds each member's value under its name.
MarshalEnv(env) == {<<k, env[k]>> : k \in DOMAIN env}
UnmarshalEnv(text) ==
  [k \in {m[1] : m \in text} |-> (CHOOSE m \in text : m[1] = k)[2]]

\* map[string]string{}.
EmptyEnv == [k \in {} |-> ""]

\* A types.Job as a caller builds it for CreateJob: no id yet (uuid.Nil), no
\* next run.
Job(name, command, args, env, status, cronExpr) ==
  [id |-> 0, name |-> name, command |-> command, args |-> args, env |-> env,
   status |-> status, cron_expr |-> cronExpr, next_run_at |-> {},
   max_retries |-> DefaultMaxRetries]

NewJobRow(job) ==
  [name |-> job.name, command |-> job.command,
   args |-> MarshalArgs(job.args), env |-> MarshalEnv(job.env),
   status |-> job.status, cron_expr |-> job.cron_expr, next_run_at |-> {},
   created_at |-> now, max_retries |-> job.max_retries]

\* GetActiveDue(now): the jobs with status = active and next_run_at <= now
\* (a NULL next_run_at compares as unknown and is not selected).
GetActiveJobsDue(t) ==
  {id \in DOMAIN jobs :
     /\ jobs[id].status = JobStatusActive
     /\ \E n \in jobs[id].next_run_at : n <= t}

\* UpdateNextRun(id, instant): the table after the update of one row.
UpdateJobNextRunAt(id, nextRunAt) ==
  [jobs EXCEPT ![id].next_run_at = nextRunAt]

\* The row read without decoding its two JSONB columns.
JobSnapshotWithoutUnmarshal(id) ==
  [id |-> id, name |-> jobs[id].name, command |-> jobs[id].command,
   args |-> <<>>, env |-> [k \in {} |-> ""],
   status |-> jobs[id].status, cron_expr |-> jobs[id].cron_expr,
   next_run_at |-> jobs[id].next_run_at, max_retries |-> jobs[id].max_retries]

\* What a reader of the jobs table gets for one row: the types.Job fields.
JobSnapshot(id) ==
  [id |-> id, name |-> jobs[id].name, command |-> jobs[id].command,
   args |-> UnmarshalArgs(jobs[id].args), env |-> UnmarshalEnv(jobs[id].env),
   status |-> jobs[id].status, cron_expr |-> jobs[id].cron_expr,
   next_run_at |-> jobs[id].next_run_at, max_retries |-> jobs[id].max_retries]

\* name VARCHAR(255) NOT NULL UNIQUE: the error of a statement that would
\* leave two rows with one name, as the store wraps it.
ErrUniqueName == "duplicate key value violates unique constraint"
ErrJobNotFound == "job not found"
ErrRunNotFound == "run not found"

\* A jobs table whose name column has no UNIQUE constraint.
NamesUnconstrained(id) == {}

\* The names another row than `id` holds.
NamesOfOthers(id) == {jobs[k].name : k \in DOMAIN jobs \ {id}}

\* ---------------------------------------------------------------- run store
\* The row CreateRun inserts for a run the caller built as scheduled.
NewRunRow(jobId, attemptNum, scheduledAt) ==
  [job_id |-> jobId, status |-> RunStatusScheduled, attempt_num |-> attemptNum,
   scheduled_at |-> scheduledAt, started_at |-> {}, finished_at |-> {},
   output |-> "", error_msg |-> {}]

\* The start update without the started_at column.
MarkRunStartedStatusOnly(runID) ==
  [runs EXCEPT ![runID].status = RunStatusRunning]

\* The start update stamping scheduled_at instead of started_at.
MarkRunStartedRescheduling(runID) ==
  [runs EXCEPT ![runID].status = RunStatusRunning, ![runID].scheduled_at = now]

\* UPDATE runs SET status = running, started_at = NOW() WHERE id = runID.
MarkRunStarted(runID) ==
  [runs EXCEPT ![runID].status = RunStatusRunning, ![runID].started_at = {now}]

\* The final update without the finished_at column.
MarkRunFinishedStatusOnly(runID, status, output, errorMsg) ==
  [runs EXCEPT ![runID].status = status, ![runID].output = output,
               ![runID].error_msg = errorMsg]

\* UPDATE runs SET status, finished_at = NOW(), output, error_msg WHERE id.
MarkRunFinished(runID, status, output, errorMsg) ==
  [runs EXCEPT ![runID].status = status, ![runID].finished_at = {now},
               ![runID].output = output, ![runID].error_msg = errorMsg]

\* UPDATE runs SET status, output, error_msg WHERE id.
UpdateRunStatus(runID, status, output, errorMsg) ==
  [runs EXCEPT ![runID].status = status, ![runID].output = output,
               ![runID].error_msg = errorMsg]

\* SELECT ... WHERE status = $1 ORDER BY scheduled_at ASC LIMIT $2: every
\* result the statement may return (rows of equal scheduled_at in any order).
GetRunsByStatus(status, limit) ==
  LET matching == {r \in DOMAIN runs : runs[r].status = status}
      k == Min(limit, Cardinality(matching))
  IN {q \in [1..k -> matching] :
        /\ \A i, m \in 1..k : i # m => q[i] # q[m]
        /\ \A i, m \in 1..k :
             i < m => runs[q[i]].scheduled_at <= runs[q[m]].scheduled_at
        /\ \A r \in matching :
             (\A i \in 1..k : q[i] # r)
               => \A i \in 1..k : runs[q[i]].scheduled_at <= runs[r].scheduled_at}

\* ---------------------------------------------------------------- executor
\* What cmd.CombinedOutput() returns: the process exited with code zero, it
\* exited non-zero, it was killed when cmdCtx became done, the command could
\* not be started (not found), or Start refused because cmdCtx was done.
ExitZero == "exit 0"
ExitNonZero == "exit 1"
Killed == "signal: killed"
NotFound == "executable file not found"
NotStarted == "context done"
ProcessOutcomes == {ExitZero, ExitNonZero, Killed, NotFound, NotStarted}

\* cmdCtx.Err() when CombinedOutput has returned.
CtxErrNone == "nil"
DeadlineExceeded == "context deadline exceeded"
Canceled == "context canceled"
CtxErrs == {CtxErrNone, DeadlineExceeded, Canceled}

\* Execute keeping the status it starts with when the command fails.
ExecuteKeepingRunning(outcome, ctxErr, startTime, endTime) ==
  [status |-> IF outcome = ExitZero THEN RunStatusSucceeded ELSE RunStatusRunning,
   output |-> "out",
   error |-> IF outcome = ExitZero THEN {} ELSE {"command failed"},
   start_time |-> startTime, end_time |-> endTime,
   outcome |-> outcome, ctx_err |-> ctxErr]

\* Execute treating an elapsed timeout like any other failure of the command.
ExecuteTimeoutAsFailure(outcome, ctxErr, startTime, endTime) ==
  [status |-> IF outcome # ExitZero
                THEN IF ctxErr = Canceled THEN RunStatusCancelled
                     ELSE RunStatusFailed
                ELSE RunStatusSucceeded,
   output |-> "out",
   error |-> IF outcome # ExitZero
               THEN IF ctxErr = Canceled THEN {"job was cancelled"}
                    ELSE {"command failed"}
               ELSE {},
   start_time |-> startTime, end_time |-> endTime,
   outcome |-> outcome, ctx_err |-> ctxErr]

\* Execute treating a cancelled context like any other failure of the command.
ExecuteCancelAsFailure(outcome, ctxErr, startTime, endTime) ==
  [status |-> IF outcome # ExitZero
                THEN IF ctxErr = DeadlineExceeded THEN RunStatusTimedOut
                     ELSE RunStatusFailed
                ELSE RunStatusSucceeded,
   output |-> "out",
   error |-> IF outcome # ExitZero
               THEN IF ctxErr = DeadlineExceeded THEN {"job timed out"}
                    ELSE {"command failed"}
               ELSE {},
   start_time |-> startTime, end_time |-> endTime,
   outcome |-> outcome, ctx_err |-> ctxErr]

\* Execute(ctx, job): the ExecutionResult, from what CombinedOutput returned
\* (err # nil unless the process exited with zero) and from cmdCtx.Err().
\* outcome and ctx_err keep the two inputs next to the result.
Execute(outcome, ctxErr, startTime, endTime) ==
  [status |-> IF outcome # ExitZero
                THEN IF ctxErr = DeadlineExceeded THEN RunStatusTimedOut
                     ELSE IF ctxErr = Canceled THEN RunStatusCancelled
                     ELSE RunStatusFailed
                ELSE RunStatusSucceeded,
   output |-> "out",
   error |-> IF outcome # ExitZero
               THEN IF ctxErr = DeadlineExceeded THEN {"job timed out"}
                    ELSE IF ctxErr = Canceled THEN {"job was cancelled"}
                    ELSE {"command failed"}
               ELSE {},
   start_time |-> startTime, end_time |-> endTime,
   outcome |-> outcome, ctx_err |-> ctxErr]

\* os.Environ() of the process a worker runs in: it differs from host to host.
HostEnv(w) ==
  {<<"PATH", "/usr/bin">>, <<"HOSTNAME", IF w = 1 THEN "host_1" ELSE "host_2">>}

\* Execute, the environment of the command: cmd.Env is set to the job's
\* KEY=VALUE pairs only if the job has any (len(job.Env) > 0); a command whose
\* Env is nil runs in the environment of the current process.
CmdEnv(job, hostEnv) ==
  IF Cardinality(DOMAIN job.env) > 0
    THEN {<<k, job.env[k]>> : k \in DOMAIN job.env}
    ELSE hostEnv

\* cmdCtx.Err() as Execute can read it under the worker's context `ctx`:
\* once ctx is cancelled cmdCtx is done (cancelled, or timed out before that);
\* under a live ctx it is nil or, for a job with a timeout, deadline exceeded.
CmdCtxErrs(ctx) ==
  IF ctx = CtxCancelled THEN {Canceled, DeadlineExceeded}
                        ELSE {CtxErrNone, DeadlineExceeded}

\* What a started process can end with: it is killed only by a done cmdCtx.
RunningOutcomes(ctxErr) ==
  IF ctxErr = CtxErrNone THEN {ExitZero, ExitNonZero}
                         ELSE {ExitZero, ExitNonZero, Killed}

\* ---------------------------------------------------------------- initial state
\* The database outlives the processes: at start the jobs table holds one or
\* two active jobs whose next_run_at was set (>= created_at), and no run.
SeedJob(name, cronExpr, nextRunAt) ==
  [name |-> name, command |-> "echo",
   args |-> MarshalArgs(<<"hello">>), env |-> MarshalEnv(EmptyEnv),
   status |-> JobStatusActive, cron_expr |-> cronExpr,
   next_run_at |-> {nextRunAt}, created_at |-> 0,
   max_retries |-> DefaultMaxRetries]

SeedJobs ==
  {(1 :> SeedJob("seed_1", c, n)) : c \in {EveryMinute, EveryTwoMinutes}, n \in {0, 1}}
  \cup {(1 :> SeedJob("seed_1", EveryTwoMinutes, n))
           @@ (2 :> SeedJob("seed_2", EveryMinute, 1)) : n \in {0, 1}}

\* No store call has been made yet.
NoCall == [op |-> "", id |-> 0, job |-> {}, err |-> {}, result |-> {}]

IdleScheduler ==
  [pc |-> "idle", now |-> 0, found |-> 0, due |-> <<>>, results |-> <<>>,
   ctx |-> CtxLive]
IdleWorker ==
  [pc |-> "idle", batch |-> <<>>, job |-> {}, start |-> {}, result |-> {},
   ctx |-> CtxLive, cmd_env |-> {}, err |-> "none"]

Init ==
  /\ now = 0
  /\ jobs \in SeedJobs
  /\ runs = <<>>
  /\ sched = [s \in SchedulerIds |-> IdleScheduler]
  /\ wk = [w \in WorkerIds |-> IdleWorker]
  /\ calls = 0
  /\ lastCall = NoCall

\* The jobs table the executor tests start from: one job, with or without
\* environment variables of its own.
TestEnv == [k \in {"TEST_VAR"} |-> "test_value"]

InitExecutor ==
  /\ now = 0
  /\ jobs \in {(1 :> [SeedJob("seed_1", EveryMinute, 0) EXCEPT !.env = MarshalEnv(env)]) :
                 env \in {EmptyEnv, TestEnv}}
  /\ runs = <<>>
  /\ sched = [s \in SchedulerIds |-> IdleScheduler]
  /\ wk = [w \in WorkerIds |-> IdleWorker]
  /\ calls = 0
  /\ lastCall = NoCall

\* The same, with the jobs table the worker tests start from: one job.
InitWorker ==
  /\ Init
  /\ jobs = (1 :> SeedJob("seed_1", EveryMinute, 0))

\* ---------------------------------------------------------------- clock
Tick ==
  /\ now < MaxTime
  /\ now' = now + 1
  /\ UNCHANGED <<jobs, runs, sched, wk, calls, lastCall>>

\* ---------------------------------------------------------------- job API
\* JobStore.CreateJob: inserts the row as given (uuid.New() is a fresh id);
\* the expression is stored unvalidated.
\* An INSERT that would repeat a stored name fails on the UNIQUE constraint
\* and inserts nothing; the error is returned wrapped.
CreateJob(job) ==
  /\ calls < MaxApiCalls
  /\ Cardinality(DOMAIN jobs) < MaxJobs
  /\ LET id == CHOOSE i \in JobIds :
                 i \notin DOMAIN jobs /\ \A k \in JobIds \ DOMAIN jobs : i <= k
         conflict == job.name \in NamesOfOthers(id)
     IN /\ jobs' = IF conflict THEN jobs ELSE jobs @@ (id :> NewJobRow(job))
        /\ lastCall' = [op |-> "CreateJob", id |-> id, job |-> {job},
                        err |-> IF conflict THEN {ErrUniqueName} ELSE {},
                        result |-> {}]
  /\ calls' = calls + 1
  /\ UNCHANGED <<now, runs, sched, wk>>

\* JobHandler.CreateJob (POST /api/v1/jobs): rejects an empty or unparseable
\* expression, defaults an empty status to active, then calls the store.
HandlerCreateJob(req) ==
  /\ req.name # ""
  /\ req.cron_expr # ""
  /\ req.command # ""
  /\ Parses(req.cron_expr)
  /\ CreateJob([req EXCEPT !.status = IF req.status = "" THEN JobStatusActive
                                                          ELSE req.status])

\* JobStore.UpdateJob: UPDATE jobs SET name, ..., cron_expr, command, args,
\* env, status, max_retries, ... WHERE id; next_run_at is not among the
\* columns it sets.  No row affected is 'job not found'; a name another row
\* holds fails on the UNIQUE constraint and updates nothing.
UpdateJob(id, job) ==
  /\ calls < MaxApiCalls
  /\ LET missing == id \notin DOMAIN jobs
         conflict == ~missing /\ job.name \in NamesOfOthers(id)
     IN /\ jobs' = IF missing \/ conflict
                     THEN jobs
                     ELSE [jobs EXCEPT ![id].name = job.name,
                                       ![id].cron_expr = job.cron_expr,
                                       ![id].command = job.command,
                                       ![id].args = MarshalArgs(job.args),
                                       ![id].env = MarshalEnv(job.env),
                                       ![id].status = job.status,
                                       ![id].max_retries = job.max_retries]
        /\ lastCall' = [op |-> "UpdateJob", id |-> id, job |-> {job},
                        err |-> IF missing THEN {ErrJobNotFound}
                                ELSE IF conflict THEN {ErrUniqueName} ELSE {},
                        result |-> {}]
  /\ calls' = calls + 1
  /\ UNCHANGED <<now, runs, sched, wk>>

\* GetJob returning (nil, nil) when no row has the id.
GetJobNilOnMissing(id) ==
  /\ calls < MaxApiCalls
  /\ lastCall' = [op |-> "GetJob", id |-> id, job |-> {}, err |-> {},
                  result |-> IF id \in DOMAIN jobs THEN {JobSnapshot(id)} ELSE {}]
  /\ calls' = calls + 1
  /\ UNCHANGED <<now, jobs, runs, sched, wk>>

\* JobStore.GetJob: the row of `id` as a types.Job, or 'job not found'.
GetJob(id) ==
  /\ calls < MaxApiCalls
  /\ lastCall' = [op |-> "GetJob", id |-> id, job |-> {},
                  err |-> IF id \in DOMAIN jobs THEN {} ELSE {ErrJobNotFound},
                  result |-> IF id \in DOMAIN jobs THEN {JobSnapshot(id)} ELSE {}]
  /\ calls' = calls + 1
  /\ UNCHANGED <<now, jobs, runs, sched, wk>>

\* DeleteJob on a runs table whose job_id does not cascade.
DeleteJobWithoutCascade(id) ==
  /\ calls < MaxApiCalls
  /\ jobs' = [k \in DOMAIN jobs \ {id} |-> jobs[k]]
  /\ lastCall' = [op |-> "DeleteJob", id |-> id, job |-> {},
                  err |-> IF id \in DOMAIN jobs THEN {} ELSE {ErrJobNotFound},
                  result |-> {}]
  /\ calls' = calls + 1
  /\ UNCHANGED <<now, runs, sched, wk>>

\* JobStore.DeleteJob: DELETE FROM jobs WHERE id; the runs of the job go with
\* it (job_id ... ON DELETE CASCADE).  No row affected is 'job not found'.
DeleteJob(id) ==
  /\ calls < MaxApiCalls
  /\ jobs' = [k \in DOMAIN jobs \ {id} |-> jobs[k]]
  /\ runs' = [r \in {q \in DOMAIN runs : runs[q].job_id # id} |-> runs[r]]
  /\ lastCall' = [op |-> "DeleteJob", id |-> id, job |-> {},
                  err |-> IF id \in DOMAIN jobs THEN {} ELSE {ErrJobNotFound},
                  result |-> {}]
  /\ calls' = calls + 1
  /\ UNCHANGED <<now, sched, wk>>

\* ---------------------------------------------------------------- scheduler
\* What scheduleJob returns for one due job, kept with the row it was given.
JobResult(job, err, next) ==
  [id |-> job.id, status |-> job.status, cron_expr |-> job.cron_expr,
   next_run_at |-> job.next_run_at, err |-> err, next |-> next]

\* checkAndScheduleDueJobs reading every stored job instead of the due ones.
SchedulerCheckAllJobs(s) ==
  /\ sched[s].pc = "idle"
  /\ StoreCall(sched[s].ctx, TRUE)
  /\ \E due \in Orderings(DOMAIN jobs) :
       sched' = [sched EXCEPT ![s] =
                   [pc |-> IF due = <<>> THEN "idle" ELSE "scheduling",
                    now |-> now,
                    found |-> Len(due),
                    due |-> [i \in DOMAIN due |-> JobSnapshot(due[i])],
                    results |-> <<>>,
                    ctx |-> sched[s].ctx]]
  /\ UNCHANGED <<now, jobs, runs, wk, calls, lastCall>>

\* checkAndScheduleDueJobs up to the loop: now := time.Now(), then the due
\* jobs are read and their number is logged ("Found due jobs").  A failing
\* query returns the error and changes nothing.
SchedulerCheck(s) ==
  /\ sched[s].pc = "idle"
  /\ StoreCall(sched[s].ctx, TRUE)
  /\ \E due \in Orderings(GetActiveJobsDue(now)) :
       sched' = [sched EXCEPT ![s] =
                   [pc |-> IF due = <<>> THEN "idle" ELSE "scheduling",
                    now |-> now,
                    found |-> Len(due),
                    due |-> [i \in DOMAIN due |-> JobSnapshot(due[i])],
                    results |-> <<>>,
                    ctx |-> sched[s].ctx]]
  /\ UNCHANGED <<now, jobs, runs, wk, calls, lastCall>>

\* The loop over dueJobs with a failing job ending Run.
SchedulerAdvanceStopping(s, result) ==
  [sched EXCEPT ![s].due = Tail(sched[s].due),
                ![s].results = Append(sched[s].results, result),
                ![s].pc = IF result.err # "none" THEN "stopped"
                          ELSE IF Tail(sched[s].due) = <<>> THEN "idle"
                          ELSE "scheduling"]

\* The scheduler's position after one iteration of the loop over dueJobs.
SchedulerAdvance(s, result) ==
  [sched EXCEPT ![s].due = Tail(sched[s].due),
                ![s].results = Append(sched[s].results, result),
                ![s].pc = IF Tail(sched[s].due) = <<>> THEN "idle" ELSE "scheduling"]

\* The loop returning at the first failing job instead of continuing.
SchedulerAbort(s, result) ==
  [sched EXCEPT ![s].due = <<>>,
                ![s].results = Append(sched[s].results, result),
                ![s].pc = "idle"]

scheduleJobAborting(s, dbOk) ==
  /\ sched[s].pc = "scheduling"
  /\ LET job == Head(sched[s].due)
         next == ParserAndNext(job.cron_expr, sched[s].now)
     IN IF next.err # "none"
          THEN /\ sched' = SchedulerAbort(s, JobResult(job, "cron", {}))
               /\ jobs' = jobs
          ELSE IF StoreCall(sched[s].ctx, dbOk) /\ job.id \in DOMAIN jobs
            THEN /\ jobs' = UpdateJobNextRunAt(job.id, next.t)
                 /\ sched' = SchedulerAdvance(s, JobResult(job, "none", next.t))
            ELSE /\ sched' = SchedulerAbort(s, JobResult(job, "update", next.t))
                 /\ jobs' = jobs
  /\ UNCHANGED <<now, runs, wk, calls, lastCall>>

\* One iteration of the loop: scheduleJob(ctx, job, now) on the next due job.
\* No run is created (the creation is commented out); the next firing is
\* computed from the tick's now and written with UpdateJobNextRunAt.
\* dbOk = FALSE is a failing update (storage error, or the row is gone).
\* The context is not consulted between two jobs of the loop.
scheduleJob(s, dbOk) ==
  /\ sched[s].pc = "scheduling"
  /\ LET job == Head(sched[s].due)
         next == ParserAndNext(job.cron_expr, sched[s].now)
     IN IF next.err # "none"
          THEN /\ sched' = SchedulerAdvance(s, JobResult(job, "cron", {}))
               /\ jobs' = jobs
          ELSE IF StoreCall(sched[s].ctx, dbOk) /\ job.id \in DOMAIN jobs
            THEN /\ jobs' = UpdateJobNextRunAt(job.id, next.t)
                 /\ sched' = SchedulerAdvance(s, JobResult(job, "none", next.t))
            ELSE /\ sched' = SchedulerAdvance(s, JobResult(job, "update", next.t))
                 /\ jobs' = jobs
  /\ UNCHANGED <<now, runs, wk, calls, lastCall>>

\* main of the scheduler: a signal arrives and cancel() is called.
SchedulerCancel(s) ==
  /\ sched[s].pc # "stopped"
  /\ sched[s].ctx = CtxLive
  /\ sched' = [sched EXCEPT ![s].ctx = CtxCancelled]
  /\ UNCHANGED <<now, jobs, runs, wk, calls, lastCall>>

\* Run returns ctx.Err() from its select, or main returns after cancel():
\* either way only once the context is cancelled.
SchedulerStop(s) ==
  /\ sched[s].pc # "stopped"
  /\ sched[s].ctx = CtxCancelled
  /\ sched' = [sched EXCEPT ![s] =
                 [IdleScheduler EXCEPT !.pc = "stopped", !.ctx = CtxCancelled]]
  /\ UNCHANGED <<now, jobs, runs, wk, calls, lastCall>>

\* The scheduler process is started again: NewScheduler and Run on a new context.
SchedulerStart(s) ==
  /\ sched[s].pc = "stopped"
  /\ sched' = [sched EXCEPT ![s] = IdleScheduler]
  /\ UNCHANGED <<now, jobs, runs, wk, calls, lastCall>>

\* ---------------------------------------------------------------- run API
\* RunStore.CreateRun as its callers use it: a scheduled first attempt with
\* scheduled_at = time.Now(), for a stored job (job_id is a foreign key).
CreateRun(jobId) ==
  /\ jobId \in DOMAIN jobs
  /\ Cardinality(DOMAIN runs) < MaxRuns
  /\ LET id == CHOOSE i \in RunIds :
                 i \notin DOMAIN runs /\ \A k \in RunIds \ DOMAIN runs : i <= k
     IN runs' = runs @@ (id :> NewRunRow(jobId, 1, now))
  /\ UNCHANGED <<now, jobs, sched, wk, calls, lastCall>>

\* RunStore.MarkRunStarted and MarkRunFinished as a caller sees them: an
\* UPDATE that affects no row returns 'run not found'.
CallMarkRunStarted(runID) ==
  /\ calls < MaxApiCalls
  /\ runs' = IF runID \in DOMAIN runs THEN MarkRunStarted(runID) ELSE runs
  /\ lastCall' = [op |-> "MarkRunStarted", id |-> runID, job |-> {},
                  err |-> IF runID \in DOMAIN runs THEN {} ELSE {ErrRunNotFound},
                  result |-> {}]
  /\ calls' = calls + 1
  /\ UNCHANGED <<now, jobs, sched, wk>>

CallMarkRunFinished(runID, status) ==
  /\ calls < MaxApiCalls
  /\ runs' = IF runID \in DOMAIN runs
               THEN MarkRunFinished(runID, status, "out", {})
               ELSE runs
  /\ lastCall' = [op |-> "MarkRunFinished", id |-> runID, job |-> {},
                  err |-> IF runID \in DOMAIN runs THEN {} ELSE {ErrRunNotFound},
                  result |-> {}]
  /\ calls' = calls + 1
  /\ UNCHANGED <<now, jobs, sched, wk>>

CallUpdateRunStatus(runID, status) ==
  /\ calls < MaxApiCalls
  /\ runs' = IF runID \in DOMAIN runs
               THEN UpdateRunStatus(runID, status, "updated", {"error"})
               ELSE runs
  /\ lastCall' = [op |-> "UpdateRunStatus", id |-> runID, job |-> {},
                  err |-> IF runID \in DOMAIN runs THEN {} ELSE {ErrRunNotFound},
                  result |-> {}]
  /\ calls' = calls + 1
  /\ UNCHANGED <<now, jobs, sched, wk>>

\* ---------------------------------------------------------------- worker
\* NewWorker: maxJobs, the LIMIT of each poll.
maxJobs == 1

\* checkAndExecuteRuns up to the loop: the scheduled runs are read with
\* GetRunsByStatus (a plain SELECT: no row is locked or marked).  A failing
\* query, or an empty result, returns and changes nothing.
WorkerPoll(w) ==
  /\ wk[w].pc = "idle"
  /\ StoreCall(wk[w].ctx, TRUE)
  /\ \E found \in GetRunsByStatus(RunStatusScheduled, maxJobs) :
       /\ found # <<>>
       /\ wk' = [wk EXCEPT ![w].pc = "getjob",
                           ![w].err = "none",
                           ![w].batch = [i \in DOMAIN found |->
                                           [id |-> found[i],
                                            job_id |-> runs[found[i]].job_id]]]
  /\ UNCHANGED <<now, jobs, runs, sched, calls, lastCall>>

\* The worker's position when executeRun returns: the next run of the batch.
\* The context is not consulted between two runs of the loop.  err is the
\* error executeRun returned, which the loop logs before it continues.
WorkerAdvance(w) ==
  [wk EXCEPT ![w].batch = Tail(wk[w].batch),
             ![w].job = {},
             ![w].start = {},
             ![w].result = {},
             ![w].cmd_env = {},
             ![w].err = "none",
             ![w].pc = IF Tail(wk[w].batch) = <<>> THEN "idle" ELSE "getjob"]

ErrGetJob == "failed to get job for run"
ErrMarkStarted == "failed to mark run as started"

\* executeRun, first store call: jobStore.GetJob(run.JobID).  On an error
\* (a failing call, or no such job) executeRun returns it.
WorkerGetJob(w, dbOk) ==
  /\ wk[w].pc = "getjob"
  /\ LET run == Head(wk[w].batch)
     IN IF StoreCall(wk[w].ctx, dbOk) /\ run.job_id \in DOMAIN jobs
          THEN wk' = [wk EXCEPT ![w].pc = "markstarted",
                                ![w].job = {JobSnapshot(run.job_id)}]
          ELSE wk' = [WorkerAdvance(w) EXCEPT ![w].err = ErrGetJob]
  /\ UNCHANGED <<now, jobs, runs, sched, calls, lastCall>>

\* executeRun recording the failure of MarkRunStarted on the run itself.
WorkerMarkStartedRecordingFailure(w, dbOk) ==
  /\ wk[w].pc = "markstarted"
  /\ LET run == Head(wk[w].batch)
     IN IF StoreCall(wk[w].ctx, dbOk) /\ run.id \in DOMAIN runs
          THEN /\ runs' = MarkRunStarted(run.id)
               /\ wk' = [wk EXCEPT ![w].pc = "execute"]
          ELSE /\ runs' = IF run.id \in DOMAIN runs
                            THEN MarkRunFinished(run.id, RunStatusFailed, "",
                                                 {ErrMarkStarted})
                            ELSE runs
               /\ wk' = [WorkerAdvance(w) EXCEPT ![w].err = ErrMarkStarted]
  /\ UNCHANGED <<now, jobs, sched, calls, lastCall>>

\* executeRun, second store call: runStore.MarkRunStarted(run.ID).
WorkerMarkStarted(w, dbOk) ==
  /\ wk[w].pc = "markstarted"
  /\ LET run == Head(wk[w].batch)
     IN IF StoreCall(wk[w].ctx, dbOk) /\ run.id \in DOMAIN runs
          THEN /\ runs' = MarkRunStarted(run.id)
               /\ wk' = [wk EXCEPT ![w].pc = "execute"]
          ELSE /\ runs' = runs
               /\ wk' = [WorkerAdvance(w) EXCEPT ![w].err = ErrMarkStarted]
  /\ UNCHANGED <<now, jobs, sched, calls, lastCall>>

\* executor.Execute up to cmd.Start: StartTime := time.Now(); under a done
\* context Start launches nothing and returns the context's error; a command
\* that is not found is not launched either (found = FALSE); otherwise the
\* subprocess runs (pc = "executing") in the environment cmd_env.
WorkerExecute(w, found) ==
  /\ wk[w].pc = "execute"
  /\ IF wk[w].ctx = CtxCancelled
       THEN wk' = [wk EXCEPT ![w].pc = "markfinished",
                             ![w].start = {now},
                             ![w].result = {Execute(NotStarted, Canceled, now, now)}]
       ELSE IF ~found
         THEN wk' = [wk EXCEPT ![w].pc = "markfinished",
                               ![w].start = {now},
                               ![w].result = {Execute(NotFound, CtxErrNone, now, now)}]
         ELSE \E job \in wk[w].job :
                wk' = [wk EXCEPT ![w].pc = "executing", ![w].start = {now},
                                 ![w].cmd_env = {CmdEnv(job, HostEnv(w))}]
  /\ UNCHANGED <<now, jobs, runs, sched, calls, lastCall>>

\* executor.Execute from CombinedOutput's return: EndTime := time.Now() and
\* the status is decided from the error and cmdCtx.Err().
WorkerWait(w, outcome, ctxErr) ==
  /\ wk[w].pc = "executing"
  /\ ctxErr \in CmdCtxErrs(wk[w].ctx)
  /\ outcome \in RunningOutcomes(ctxErr)
  /\ \E st \in wk[w].start :
       wk' = [wk EXCEPT ![w].pc = "markfinished",
                        ![w].result = {Execute(outcome, ctxErr, st, now)}]
  /\ UNCHANGED <<now, jobs, runs, sched, calls, lastCall>>

\* executeRun, the rest: the result is written with MarkRunFinished (under the
\* same ctx); a failing write is logged and executeRun returns nil.
WorkerFinish(w, dbOk) ==
  /\ wk[w].pc = "markfinished"
  /\ LET run == Head(wk[w].batch)
     IN \E result \in wk[w].result :
          IF StoreCall(wk[w].ctx, dbOk) /\ run.id \in DOMAIN runs
            THEN runs' = MarkRunFinished(run.id, result.status, result.output,
                                         result.error)
            ELSE runs' = runs
  /\ wk' = WorkerAdvance(w)
  /\ UNCHANGED <<now, jobs, sched, calls, lastCall>>

\* main of the worker: a signal arrives and cancel() is called.
WorkerCancel(w) ==
  /\ wk[w].pc # "stopped"
  /\ wk[w].ctx = CtxLive
  /\ wk' = [wk EXCEPT ![w].ctx = CtxCancelled]
  /\ UNCHANGED <<now, jobs, runs, sched, calls, lastCall>>

\* Run returns ctx.Err() from its select (between two ticks), or main returns
\* when its two-second sleep after cancel() is over, wherever the loop is.
WorkerStop(w) ==
  /\ wk[w].pc # "stopped"
  /\ wk[w].ctx = CtxCancelled
  /\ wk' = [wk EXCEPT ![w] =
              [IdleWorker EXCEPT !.pc = "stopped", !.ctx = CtxCancelled]]
  /\ UNCHANGED <<now, jobs, runs, sched, calls, lastCall>>

\* The worker process is started again: NewWorker and Run on a new context.
WorkerStart(w) ==
  /\ wk[w].pc = "stopped"
  /\ wk' = [wk EXCEPT ![w] = IdleWorker]
  /\ UNCHANGED <<now, jobs, runs, sched, calls, lastCall>>

\* ---------------------------------------------------------------- specifications
\* The callers of the scheduler's specification: jobs of one fixed command
\* under a name no stored job has.
EchoJob(status, cronExpr) ==
  Job("job_new", "echo", <<"hello">>, EmptyEnv, status, cronExpr)

\* The jobs given to the store directly, and the requests posted to the
\* handler (where the status and the expression may be left empty).
StoreJobs ==
  {EchoJob(st, c) : st \in {JobStatusActive, JobStatusInactive},
                    c \in {EveryTwoMinutes, Unparseable}}

HandlerRequests ==
  {EchoJob(st, c) : st \in {"", JobStatusInactive},
                    c \in {"", EveryTwoMinutes, Unparseable}}

JobApi ==
  \/ \E job \in StoreJobs : CreateJob(job)
  \/ \E req \in HandlerRequests : HandlerCreateJob(req)
  \/ \E id \in DOMAIN jobs, st \in JobStatuses, c \in CronExprs :
       \* a request changes the status or the expression of the stored job
       /\ st = jobs[id].status \/ c = jobs[id].cron_expr
       /\ UpdateJob(id, [JobSnapshot(id) EXCEPT !.status = st, !.cron_expr = c])

SchedulerStep(s) ==
  \/ SchedulerCheck(s)
  \/ \E dbOk \in BOOLEAN : scheduleJob(s, dbOk)

WorkerStep(w) ==
  \/ WorkerPoll(w)
  \/ \E dbOk \in BOOLEAN : WorkerGetJob(w, dbOk)
  \/ \E dbOk \in BOOLEAN : WorkerMarkStarted(w, dbOk)
  \/ \E found \in BOOLEAN : WorkerExecute(w, found)
  \/ \E outcome \in ProcessOutcomes, ctxErr \in CtxErrs : WorkerWait(w, outcome, ctxErr)
  \/ \E dbOk \in BOOLEAN : WorkerFinish(w, dbOk)

\* The life of a process around Run: signal, exit, restart.
SchedulerLifecycle(s) ==
  \/ SchedulerCancel(s)
  \/ SchedulerStop(s)
  \/ SchedulerStart(s)

WorkerLifecycle(w) ==
  \/ WorkerCancel(w)
  \/ WorkerStop(w)
  \/ WorkerStart(w)

\* One scheduler process (the reference deployment) and the job API.
NextScheduler ==
  \/ Tick
  \/ JobApi
  \/ SchedulerStep(1)

SpecScheduler == Init /\ [][NextScheduler]_vars

\* Two scheduler processes started on the same store, each running Run.
NextTwoSchedulers ==
  \/ Tick
  \/ \E s \in SchedulerIds : SchedulerStep(s)

SpecTwoSchedulers == Init /\ [][NextTwoSchedulers]_vars

\* The worker processes and the callers that create runs.
NextWorker ==
  \/ Tick
  \/ \E j \in JobIds : CreateRun(j)
  \/ \E w \in WorkerIds : WorkerStep(w)

SpecWorker == InitWorker /\ [][NextWorker]_vars

\* One scheduler and one worker, each with its signal, exit and restart.
NextLifecycle ==
  \/ Tick
  \/ \E j \in JobIds : CreateRun(j)
  \/ SchedulerStep(1)
  \/ SchedulerLifecycle(1)
  \/ WorkerStep(1)
  \/ WorkerLifecycle(1)

SpecLifecycle == InitWorker /\ [][NextLifecycle]_vars

\* One worker process with its signal, exit and restart: the executor under
\* every context it can be called with.
NextExecutor ==
  \/ Tick
  \/ \E j \in JobIds : CreateRun(j)
  \/ WorkerStep(1)
  \/ WorkerLifecycle(1)

SpecExecutor == InitExecutor /\ [][NextExecutor]_vars

\* One worker process that is stopped and started again, its store calls
\* going through whenever its context is live.  The process keeps taking the
\* steps of its loop (the ticker fires, calls return), and a stopped worker is
\* started again.
WorkerStepStoreUp(w) ==
  \/ WorkerPoll(w)
  \/ WorkerGetJob(w, TRUE)
  \/ WorkerMarkStarted(w, TRUE)
  \/ \E found \in BOOLEAN : WorkerExecute(w, found)
  \/ \E outcome \in ProcessOutcomes, ctxErr \in CtxErrs : WorkerWait(w, outcome, ctxErr)
  \/ WorkerFinish(w, TRUE)

NextRecovery ==
  \/ Tick
  \/ \E j \in JobIds : CreateRun(j)
  \/ WorkerStepStoreUp(1)
  \/ WorkerLifecycle(1)

SpecRecovery ==
  /\ InitWorker
  /\ [][NextRecovery]_vars
  /\ WF_vars(WorkerStepStoreUp(1))
  /\ WF_vars(WorkerStart(1))

\* The whole system: the job API, the schedulers and the workers.
\* The cron engine under a caller (the scheduler's GetJobNextRuns, the engine's
\* tests): each call is recorded with its arguments and what it returned.
MaxN == 3

CallParserAndNext(cronExpr, fromTime) ==
  /\ lastCall' = [op |-> "ParserAndNext", id |-> 0,
                  job |-> {[cron_expr |-> cronExpr, from |-> fromTime, n |-> 1]},
                  err |-> {ParserAndNext(cronExpr, fromTime).err} \ {"none"},
                  result |-> ParserAndNext(cronExpr, fromTime).t]
  /\ UNCHANGED <<now, jobs, runs, sched, wk, calls>>

CallGetNextNRuns(cronExpr, fromTime, n) ==
  /\ lastCall' = [op |-> "GetNextNRuns", id |-> 0,
                  job |-> {[cron_expr |-> cronExpr, from |-> fromTime, n |-> n]},
                  err |-> {GetNextNRuns(cronExpr, fromTime, n).err} \ {"none"},
                  result |-> {GetNextNRuns(cronExpr, fromTime, n).runs}]
  /\ UNCHANGED <<now, jobs, runs, sched, wk, calls>>

NextCron ==
  \/ Tick
  \/ \E expr \in CronExprs \cup TestCronExprs, t \in {now, TestTime} :
       CallParserAndNext(expr, t)
  \/ \E expr \in CronExprs \cup TestCronExprs, t \in {now, TestTime}, n \in 0..MaxN :
       CallGetNextNRuns(expr, t, n)

SpecCron == InitWorker /\ [][NextCron]_vars

\* The two stores under a client that calls them directly, as the store
\* tests do: the jobs of those tests, among them one under the name of the
\* seeded job.
VersionEnv == [k \in {"VERSION", "ENV"} |-> IF k = "VERSION" THEN "2" ELSE "test"]

TestJobs ==
  {Job("test_hello_world", "echo", <<"hello", "world">>, TestEnv,
       JobStatusActive, EveryMinute),
   Job("test_hello_world", "curl", <<"https://example.com">>, VersionEnv,
       JobStatusInactive, EveryTwoMinutes),
   Job("test_job_2", "echo", <<"world", "hello">>, EmptyEnv,
       JobStatusActive, EveryMinute),
   Job("seed_1", "echo", <<>>, VersionEnv, JobStatusArchived, EveryMinute)}

JobStoreCall ==
  \/ \E job \in TestJobs : CreateJob(job)
  \/ \E id \in JobIds : GetJob(id)
  \/ \E id \in JobIds, job \in TestJobs : UpdateJob(id, job)
  \/ \E id \in JobIds : DeleteJob(id)

RunStoreCall ==
  \/ \E j \in JobIds : CreateRun(j)
  \/ \E r \in RunIds : CallMarkRunStarted(r)
  \/ \E r \in RunIds, st \in {RunStatusSucceeded, RunStatusFailed} :
       CallMarkRunFinished(r, st)
  \/ \E r \in RunIds : CallUpdateRunStatus(r, RunStatusFailed)

NextJobStore ==
  \/ Tick
  \/ JobStoreCall
  \/ RunStoreCall

SpecJobStore == InitWorker /\ [][NextJobStore]_vars

\* The whole pipeline with no store failure: a client posts one job with the
\* expression '* * * * *', the scheduler and the worker keep taking the steps
\* of their loops (their tickers fire every second), the clock advances.  The
\* seeded job gets runs from other callers of CreateRun.
ApiJob == Job("job_new", "echo", <<"x">>, EmptyEnv, "", EveryMinute)

SchedulerStepStoreUp(s) ==
  \/ SchedulerCheck(s)
  \/ scheduleJob(s, TRUE)

NextEndToEnd ==
  \/ Tick
  \/ HandlerCreateJob(ApiJob)
  \/ CreateRun(1)
  \/ SchedulerStepStoreUp(1)
  \/ WorkerStepStoreUp(1)

SpecEndToEnd ==
  /\ InitWorker
  /\ [][NextEndToEnd]_vars
  /\ WF_vars(Tick)
  /\ WF_vars(SchedulerStepStoreUp(1))
  /\ WF_vars(WorkerStepStoreUp(1))

Next ==
  \/ Tick
  \/ JobApi
  \/ \E j \in JobIds : CreateRun(j)
  \/ \E s \in SchedulerIds : SchedulerStep(s) \/ SchedulerLifecycle(s)
  \/ \E w \in WorkerIds : WorkerStep(w) \/ WorkerLifecycle(w)

Spec == Init /\ [][Next]_vars

\* ================================================================ claims
\* The run ids a worker holds: the runs it selected at its last poll and has
\* not yet finished with.
Selected(w) == {wk[w].batch[i].id : i \in DOMAIN wk[w].batch}

\* C1: no run is picked up by two workers polling the same run store: the
\* sets of runs two workers have selected for execution are disjoint, and no
\* two workers run the subprocess of the same run.
C1_DisjointSelection ==
  \A w1, w2 \in WorkerIds : w1 # w2 => Selected(w1) \cap Selected(w2) = {}

\* C2: terminal run states are absorbing and a run's status never moves
\* backward in the order scheduled < claimed < running < terminal.
C2_TerminalAbsorbing ==
  [][\A r \in DOMAIN runs \cap DOMAIN runs' :
       /\ StatusRank(runs'[r].status) >= StatusRank(runs[r].status)
       /\ runs[r].status \in TerminalStatuses => runs'[r].status = runs[r].status
    ]_vars

\* C3: every status change of a run is one arrow of the diagram: scheduled to
\* claimed, claimed to running, or running to a terminal state.
C3_DiagramSteps ==
  [][\A r \in DOMAIN runs \cap DOMAIN runs' :
       runs'[r].status # runs[r].status =>
         \/ runs[r].status = RunStatusScheduled /\ runs'[r].status = RunStatusClaimed
         \/ runs[r].status = RunStatusClaimed /\ runs'[r].status = RunStatusRunning
         \/ runs[r].status = RunStatusRunning /\ runs'[r].status \in TerminalStatuses
    ]_vars

\* A step in which scheduler s has run scheduleJob on the head of its due list.
ScheduleJobStep(s) == Len(sched'[s].results) = Len(sched[s].results) + 1

\* The runs a step has inserted.
NewRuns == DOMAIN runs' \ DOMAIN runs

\* The number of firing instants of a due job that have elapsed at `t`,
\* counted from its stored next_run_at, is at least two.
MissedSeveral(job, t) ==
  \E n \in job.next_run_at : t - n >= Period(job.cron_expr)

\* C4: for every job returned as due, the tick creates exactly one run with
\* status scheduled, attempt_num 1 and scheduled_at = the tick's now, and on
\* success the job's next_run_at is advanced.
C4_OneRunPerDueJob ==
  [][\A s \in SchedulerIds :
       ScheduleJobStep(s) =>
         LET job == Head(sched[s].due)
             result == sched'[s].results[Len(sched'[s].results)]
         IN /\ Cardinality(NewRuns) = 1
            /\ \A r \in NewRuns : runs'[r] = NewRunRow(job.id, 1, sched[s].now)
            /\ result.err = "none" => jobs'[job.id].next_run_at = result.next
    ]_vars

\* C5: after a tick of the single scheduler has successfully processed a job
\* with tick instant now, the stored next_run_at is Next(cron_expr, now), it is
\* strictly greater than that now, and the job is not due at that instant.
C5_NextRunAfterNow ==
  \A i \in DOMAIN sched[1].results :
    LET r == sched[1].results[i]
    IN r.err = "none" /\ r.id \in DOMAIN jobs =>
         /\ jobs[r.id].next_run_at # {}
         /\ jobs[r.id].next_run_at = ScheduleNext(r.cron_expr, sched[1].now)
         /\ \A n \in jobs[r.id].next_run_at : n > sched[1].now
         /\ r.id \notin GetActiveJobsDue(sched[1].now)

\* A tick that ran at a firing instant of the job (now = the stored
\* next_run_at) has processed it successfully and is over.
C5_Witness ==
  /\ sched[1].pc = "idle"
  /\ \E i \in DOMAIN sched[1].results :
       /\ sched[1].results[i].err = "none"
       /\ sched[1].results[i].next_run_at = {sched[1].now}
       /\ sched[1].now > 0

\* C6: with a single scheduler every write of a job's next_run_at is greater
\* than or equal to the value it replaces, and never clears it.
C6_NextRunNeverRewinds ==
  [][\A id \in DOMAIN jobs \cap DOMAIN jobs' :
       \A old \in jobs[id].next_run_at :
         /\ jobs'[id].next_run_at # {}
         /\ \A new \in jobs'[id].next_run_at : new >= old
    ]_vars

\* In one tick the update of one job failed and the next_run_at of another
\* was replaced by a later instant.
C6_Witness ==
  \E i, k \in DOMAIN sched[1].results :
    LET f == sched[1].results[i]
        r == sched[1].results[k]
    IN /\ f.err = "update"
       /\ r.err = "none"
       /\ r.id \in DOMAIN jobs
       /\ jobs[r.id].next_run_at = r.next
       /\ \A old \in r.next_run_at : \A new \in r.next : new > old

\* C7: every active job has next_run_at set, with next_run_at >= created_at.
C7_ActiveHasNextRun ==
  \A id \in DOMAIN jobs :
    jobs[id].status = JobStatusActive =>
      /\ jobs[id].next_run_at # {}
      /\ \A n \in jobs[id].next_run_at : n >= jobs[id].created_at

C9_MissedFiringsCoalesced ==
  [][\A s \in SchedulerIds :
       LET job == Head(sched[s].due)
       IN (/\ ScheduleJobStep(s)
           /\ sched'[s].results[Len(sched'[s].results)].err = "none"
           /\ MissedSeveral(job, sched[s].now)) =>
            /\ Cardinality(NewRuns) = 1
            /\ \A r \in NewRuns : runs'[r].job_id = job.id
            /\ jobs'[job.id].next_run_at = ScheduleNext(job.cron_expr, sched[s].now)
    ]_vars

\* C10: in a tick of the single scheduler, a job whose scheduling failed keeps
\* the next_run_at it had, every job found due is processed (none is left when
\* the tick is over), and a job whose scheduling succeeded has the next_run_at
\* computed for it, whatever failed before it.
C10_FailureIsolated ==
  /\ Len(sched[1].results) + Len(sched[1].due) = sched[1].found
  /\ sched[1].pc = "idle" => sched[1].due = <<>>
  /\ \A i \in DOMAIN sched[1].results :
       LET r == sched[1].results[i]
       IN r.id \in DOMAIN jobs =>
            jobs[r.id].next_run_at = IF r.err = "none" THEN r.next ELSE r.next_run_at

\* A tick is over in which the first due job failed (at the cron engine or at
\* the update) and the second one was scheduled.
C10_Witness ==
  /\ sched[1].pc = "idle"
  /\ Len(sched[1].results) = 2
  /\ sched[1].results[1].err # "none"
  /\ sched[1].results[2].err = "none"
  /\ jobs[sched[1].results[2].id].next_run_at = sched[1].results[2].next

\* C11: when the cron engine reports that a due job's expression has no next
\* firing, the job becomes idle: once the tick has processed it, its
\* next_run_at is unset and no later tick can find it due.
C11_UnreachableJobIdle ==
  \A i \in DOMAIN sched[1].results :
    LET r == sched[1].results[i]
    IN (/\ r.err = "cron"
        /\ Parses(r.cron_expr)
        /\ r.id \in DOMAIN jobs
        /\ jobs[r.id].cron_expr = r.cron_expr) =>
         /\ jobs[r.id].next_run_at = {}
         /\ \A t \in now..MaxTime : r.id \notin GetActiveJobsDue(t)

\* C12: neither loop ends on an error: Scheduler.Run and Worker.Run have
\* returned only if their context is cancelled; after a failing query, a
\* failing scheduling step or a failing execution the process is still in its
\* loop.
C12_LoopsSurviveErrors ==
  /\ \A s \in SchedulerIds : sched[s].pc = "stopped" => sched[s].ctx = CtxCancelled
  /\ \A w \in WorkerIds : wk[w].pc = "stopped" => wk[w].ctx = CtxCancelled

\* Under live contexts, the scheduler is back at its select after a tick in
\* which a job failed, and the worker has polled again after a run it
\* executed ended failed.
C12_Witness ==
  /\ sched[1].ctx = CtxLive
  /\ sched[1].pc = "idle"
  /\ \E i \in DOMAIN sched[1].results : sched[1].results[i].err # "none"
  /\ wk[1].ctx = CtxLive
  /\ wk[1].pc = "getjob"
  /\ \E r \in DOMAIN runs : runs[r].status = RunStatusFailed

\* C13: when the cancellation fired while a run was in flight and its
\* subprocess was killed by it, executeRun leaves the run record with status
\* cancelled, finished_at set and error_msg "job was cancelled".
C13_CancelledRunRecorded ==
  [][\A w \in WorkerIds :
       (/\ wk[w].pc = "markfinished"
        /\ wk'[w].pc \in {"idle", "getjob"}
        /\ \E res \in wk[w].result : res.outcome = Killed /\ res.ctx_err = Canceled) =>
         LET r == Head(wk[w].batch).id
         IN /\ runs'[r].status = RunStatusCancelled
            /\ runs'[r].finished_at # {}
            /\ runs'[r].error_msg = {"job was cancelled"}
    ]_vars

\* C14: when a run ends failed or timed_out and its attempt_num is less than
\* the job's max_retries + 1, a new scheduled run of the same job is created
\* with attempt_num + 1 and scheduled_at = now.
C14_FailedRunsRetried ==
  [][\A r \in DOMAIN runs :
       (/\ runs'[r].status \in {RunStatusFailed, RunStatusTimedOut}
        /\ runs'[r].status # runs[r].status
        /\ runs[r].job_id \in DOMAIN jobs
        /\ runs[r].attempt_num < jobs[runs[r].job_id].max_retries + 1) =>
         \E n \in NewRuns :
           runs'[n] = NewRunRow(runs[r].job_id, runs[r].attempt_num + 1, now)
    ]_vars

\* C15: if the worker process has stopped while a run it picked up is in
\* status running, then, the worker being started again, that run eventually
\* reaches a terminal status.
C15_RunningRunsRecovered ==
  \A r \in RunIds :
    (r \in DOMAIN runs /\ runs[r].status = RunStatusRunning /\ wk[1].pc = "stopped")
      ~> (r \in DOMAIN runs /\ runs[r].status \in TerminalStatuses)

\* C16: every run in a terminal state has finished_at set, and its error_msg
\* is null if and only if its status is succeeded.
C16_TerminalRecord ==
  \A r \in DOMAIN runs :
    runs[r].status \in TerminalStatuses =>
      /\ runs[r].finished_at # {}
      /\ runs[r].error_msg = {} <=> runs[r].status = RunStatusSucceeded

\* One run was recorded succeeded and another one timed out, both by workers
\* that are back at their select.
C16_Witness ==
  /\ \E r \in DOMAIN runs :
       runs[r].status = RunStatusSucceeded /\ runs[r].error_msg = {}
  /\ \E r \in DOMAIN runs :
       runs[r].status = RunStatusTimedOut /\ runs[r].error_msg = {"job timed out"}
  /\ \A w \in WorkerIds : wk[w].pc = "idle"

\* C17: in every reachable state of the run store, a run's finished_at is set
\* if and only if its status is terminal.
C17_FinishedIffTerminal ==
  \A r \in DOMAIN runs :
    runs[r].finished_at # {} <=> runs[r].status \in TerminalStatuses

\* C18: for every run the timestamps that are present are ordered:
\* scheduled_at <= started_at <= finished_at.
C18_TimestampsOrdered ==
  \A r \in DOMAIN runs :
    /\ \A st \in runs[r].started_at : runs[r].scheduled_at <= st
    /\ \A fin \in runs[r].finished_at :
         /\ runs[r].scheduled_at <= fin
         /\ \A st \in runs[r].started_at : st <= fin

\* C19: once its context is cancelled, a worker starts no new run: no step it
\* takes moves a run out of status scheduled, and none launches a subprocess.
C19_NoStartAfterCancel ==
  [][\A w \in WorkerIds :
       (wk[w].ctx = CtxCancelled /\ wk'[w] # wk[w]) =>
         /\ \A r \in DOMAIN runs :
              runs[r].status = RunStatusScheduled =>
                runs'[r].status = RunStatusScheduled
         /\ wk'[w].pc = "executing" => wk[w].pc = "executing"
    ]_vars

\* The signal came between MarkRunStarted and Execute: Execute has returned
\* without launching the command, and a scheduled run is still waiting.
C19_Witness ==
  /\ wk[1].ctx = CtxCancelled
  /\ wk[1].pc = "markfinished"
  /\ \E res \in wk[1].result : res.outcome = NotStarted
  /\ \E r \in DOMAIN runs : runs[r].status = RunStatusScheduled

\* C20: Execute returns a terminal status, never running: succeeded with a
\* nil error when the process exited with zero; failed with an error when it
\* exited non-zero or could not be launched and the command context is
\* neither timed out nor cancelled; and its end time is not before its start
\* time.
C20_ExecuteResult ==
  \A w \in WorkerIds : \A res \in wk[w].result :
    /\ res.status \in TerminalStatuses
    /\ res.outcome = ExitZero => res.status = RunStatusSucceeded /\ res.error = {}
    /\ (res.outcome \in {ExitNonZero, NotFound} /\ res.ctx_err = CtxErrNone) =>
         res.status = RunStatusFailed /\ res.error # {}
    /\ res.start_time <= res.end_time

\* Execute has returned for a command that ran for a while and exited
\* non-zero under a context that is neither timed out nor cancelled.
C20_Witness ==
  \E res \in wk[1].result :
    /\ res.outcome = ExitNonZero
    /\ res.ctx_err = CtxErrNone
    /\ res.status = RunStatusFailed
    /\ res.start_time < res.end_time

C23_NaturalStatus ==
  \A w \in WorkerIds : \A res \in wk[w].result :
    /\ res.outcome = ExitZero => res.status = RunStatusSucceeded
    /\ res.outcome = ExitNonZero => res.status = RunStatusFailed

C26_PollTakesAllScheduled ==
  [][\A w \in WorkerIds :
       (wk[w].pc = "idle" /\ wk'[w].pc = "getjob") =>
         {wk'[w].batch[i].id : i \in DOMAIN wk'[w].batch}
           = {r \in DOMAIN runs : runs[r].status = RunStatusScheduled}
    ]_vars

\* C24: the environment of the subprocess is exactly the job's env, also when
\* the job's env is empty, and it is the same on every host.
C24_EnvIsJobEnv ==
  \A w \in WorkerIds :
    \A e \in wk[w].cmd_env : \A job \in wk[w].job :
      /\ e = {<<k, job.env[k]>> : k \in DOMAIN job.env}
      /\ \A h \in WorkerIds : CmdEnv(job, HostEnv(h)) = e

\* C27: with the scheduler and the worker ticking fairly and the store up, an
\* active job created through the API with the expression '* * * * *'
\* eventually has a run with status succeeded.
C27_EndToEnd ==
  \A id \in JobIds :
    (/\ id \in DOMAIN jobs
     /\ jobs[id].name = ApiJob.name
     /\ jobs[id].status = JobStatusActive
     /\ jobs[id].cron_expr = EveryMinute)
      ~> (\E r \in DOMAIN runs :
            runs[r].job_id = id /\ runs[r].status = RunStatusSucceeded)

\* C28: a GetJob that follows a successful CreateJob or UpdateJob of the same
\* id returns the name, command, args (in order), env and status that call
\* was given; a GetJob that follows a successful DeleteJob of the id fails
\* with 'job not found'.
C28_JobRoundTrip ==
  [][(/\ calls' = calls + 1
      /\ lastCall'.op = "GetJob"
      /\ lastCall'.id = lastCall.id
      /\ lastCall.err = {}) =>
       /\ lastCall.op \in {"CreateJob", "UpdateJob"} =>
            /\ lastCall'.err = {}
            /\ \E given \in lastCall.job : \E got \in lastCall'.result :
                 /\ got.name = given.name
                 /\ got.command = given.command
                 /\ got.args = given.args
                 /\ got.env = given.env
                 /\ got.status = given.status
       /\ lastCall.op = "DeleteJob" =>
            /\ lastCall'.err = {ErrJobNotFound}
            /\ lastCall'.result = {}
    ]_vars

\* A job created with two args and one variable has been read back.
C28_Witness ==
  /\ lastCall.op = "GetJob"
  /\ lastCall.err = {}
  /\ \E got \in lastCall.result :
       /\ got.name = "test_hello_world"
       /\ got.args = <<"hello", "world">>
       /\ got.env = TestEnv

\* C29: GetJob, UpdateJob and DeleteJob on an id that is not stored return
\* 'job not found', MarkRunStarted and MarkRunFinished on a run id that is
\* not stored return 'run not found', and none of them changes the stored
\* jobs and runs.
C29_NotFound ==
  [][calls' = calls + 1 =>
       /\ (/\ lastCall'.op \in {"GetJob", "UpdateJob", "DeleteJob"}
           /\ lastCall'.id \notin DOMAIN jobs) =>
            /\ lastCall'.err = {ErrJobNotFound}
            /\ lastCall'.result = {}
            /\ jobs' = jobs
            /\ runs' = runs
       /\ (/\ lastCall'.op \in {"MarkRunStarted", "MarkRunFinished"}
           /\ lastCall'.id \notin DOMAIN runs) =>
            /\ lastCall'.err = {ErrRunNotFound}
            /\ jobs' = jobs
            /\ runs' = runs
    ]_vars

\* An update of a job that is not stored has returned, jobs and runs being
\* stored.
C29_Witness ==
  /\ lastCall.op = "UpdateJob"
  /\ lastCall.id \notin DOMAIN jobs
  /\ lastCall.err = {ErrJobNotFound}
  /\ DOMAIN jobs # {}
  /\ DOMAIN runs # {}

C31_StoredCronParses ==
  \A id \in DOMAIN jobs : Parses(jobs[id].cron_expr)

\* C32: every stored run references a stored job, and after a successful
\* DeleteJob(id) no run with job_id = id remains.
C32_RunsReferenceJobs ==
  /\ \A r \in DOMAIN runs : runs[r].job_id \in DOMAIN jobs
  /\ (lastCall.op = "DeleteJob" /\ lastCall.err = {}) =>
       \A r \in DOMAIN runs : runs[r].job_id # lastCall.id

\* A job that had the first run was deleted while another job keeps its run.
C32_Witness ==
  /\ lastCall.op = "DeleteJob"
  /\ lastCall.err = {}
  /\ DOMAIN runs = {2}
  /\ runs[2].job_id \in DOMAIN jobs

\* What GetNextNRuns returned is Next applied iteratively from `from`: at most
\* n instants, the first the next firing after `from`, each following the
\* next firing after the one before it, strictly increasing.
IteratedNext(expr, from, n, found) ==
  /\ Len(found) <= n
  /\ \A i \in DOMAIN found :
       /\ {found[i]} = ScheduleNext(expr, IF i = 1 THEN from ELSE found[i - 1])
       /\ found[i] > (IF i = 1 THEN from ELSE found[i - 1])
  /\ Len(found) < n => ScheduleNext(expr, IF found = <<>> THEN from
                                           ELSE found[Len(found)]) = {}

\* C33 as stated: for every parseable expression and instant t, Next(expr, t)
\* is an instant strictly greater than t, and GetNextNRuns(expr, t, n) is at
\* most n instants that are Next applied iteratively.
C33_NextAfterForEveryParseable ==
  \A call \in lastCall.job :
    /\ (lastCall.op = "ParserAndNext" /\ Parses(call.cron_expr)) =>
         /\ lastCall.result # {}
         /\ \A t \in lastCall.result : t > call.from
    /\ (lastCall.op = "GetNextNRuns" /\ Parses(call.cron_expr)) =>
         \A found \in lastCall.result :
           IteratedNext(call.cron_expr, call.from, call.n, found)

\* C33 amended: whenever ParserAndNext returns an instant (the expression
\* parses and has a firing after t) that instant is strictly greater than t,
\* it returns an error and no instant otherwise; GetNextNRuns(expr, t, n) is
\* at most n instants that are Next applied iteratively.
C33_NextAfterWhenFiring ==
  \A call \in lastCall.job :
    /\ lastCall.op = "ParserAndNext" =>
         /\ lastCall.err = {} => lastCall.result # {}
         /\ lastCall.err # {} => lastCall.result = {}
         /\ lastCall.err = {} <=>
              (Parses(call.cron_expr) /\ call.cron_expr # NeverFires)
         /\ \A t \in lastCall.result : t > call.from
    /\ (lastCall.op = "GetNextNRuns" /\ Parses(call.cron_expr)) =>
         \A found \in lastCall.result :
           IteratedNext(call.cron_expr, call.from, call.n, found)

\* Three successive firings of '*/2 * * * *' were returned, asked from a
\* firing instant.
C33_Witness ==
  /\ lastCall.op = "GetNextNRuns"
  /\ \E call \in lastCall.job : \E found \in lastCall.result :
       /\ call.cron_expr = EveryTwoMinutes
       /\ call.from = 2
       /\ found = <<4, 6, 8>>

\* C34: asked from 2024-01-01T12:00:00Z, ParserAndNext gives 12:01 for
\* '* * * * *', 12:05 for '*/5 * * * *', midnight of the next day for
\* '0 0 * * *' and 13:00 for '@hourly', and it returns an error for an
\* expression that does not parse ('invalid', or one with too many fields).
C34_NextFireValues ==
  \A call \in lastCall.job :
    lastCall.op = "ParserAndNext" =>
      /\ call.from = TestTime =>
           /\ call.cron_expr = EveryMinute => lastCall.result = {TestTime + 1}
           /\ call.cron_expr = EveryFiveMinutes => lastCall.result = {TestTime + 5}
           /\ call.cron_expr = DailyAtMidnight => lastCall.result = {1440}
           /\ call.cron_expr = Hourly => lastCall.result = {TestTime + 60}
      /\ call.cron_expr \in {Unparseable, TooManyFields} =>
           /\ lastCall.err = {"invalid cron expression"}
           /\ lastCall.result = {}

\* The daily expression was asked from noon and answered with midnight.
C34_Witness ==
  /\ lastCall.op = "ParserAndNext"
  /\ lastCall.err = {}
  /\ lastCall.result = {1440}
  /\ \E call \in lastCall.job :
       call.cron_expr = DailyAtMidnight /\ call.from = TestTime

\* C36: the runs a worker selects at a tick are the scheduled runs with the
\* smallest scheduled_at, ties broken by creation order: every scheduled run
\* it leaves unselected is later than every selected one, or as late and
\* created after it.
C36_OldestFirst ==
  [][\A w \in WorkerIds :
       (wk[w].pc = "idle" /\ wk'[w].pc = "getjob") =>
         \A i \in DOMAIN wk'[w].batch :
           \A r \in DOMAIN runs :
             (/\ runs[r].status = RunStatusScheduled
              /\ \A k \in DOMAIN wk'[w].batch : wk'[w].batch[k].id # r) =>
               LET b == wk'[w].batch[i].id
               IN \/ runs[r].scheduled_at > runs[b].scheduled_at
                  \/ runs[r].scheduled_at = runs[b].scheduled_at /\ r > b
    ]_vars

\* C37: every stored job whose status is inactive or archived has no
\* next_run_at.
C37_NonActiveHasNoNextRun ==
  \A id \in DOMAIN jobs :
    jobs[id].status \in {JobStatusInactive, JobStatusArchived} =>
      jobs[id].next_run_at = {}

\* C38: the scheduled_at, job_id and attempt_num of a stored run never
\* change (MarkRunStarted, MarkRunFinished and UpdateRunStatus leave them as
\* they are), and MarkRunStarted also leaves output, error_msg and
\* finished_at as they are.
C38_RunFrame ==
  [][\A r \in DOMAIN runs \cap DOMAIN runs' :
       /\ runs'[r].scheduled_at = runs[r].scheduled_at
       /\ runs'[r].job_id = runs[r].job_id
       /\ runs'[r].attempt_num = runs[r].attempt_num
       /\ (calls' = calls + 1 /\ lastCall'.op = "MarkRunStarted") =>
            /\ runs'[r].output = runs[r].output
            /\ runs'[r].error_msg = runs[r].error_msg
            /\ runs'[r].finished_at = runs[r].finished_at
    ]_vars

\* A run that had been finished with output was marked started at an
\* instant later than its scheduled_at.
C38_Witness ==
  /\ lastCall.op = "MarkRunStarted"
  /\ lastCall.err = {}
  /\ lastCall.id \in DOMAIN runs
  /\ runs[lastCall.id].started_at = {now}
  /\ runs[lastCall.id].scheduled_at < now
  /\ runs[lastCall.id].finished_at # {}
  /\ runs[lastCall.id].output = "out"

\* C39: with two scheduler instances ticking concurrently on the same store,
\* a job's stored next_run_at never decreases: no write replaces it with a
\* smaller instant.
C39_NextRunNeverDecreases ==
  [][\A id \in DOMAIN jobs \cap DOMAIN jobs' :
       \A old \in jobs[id].next_run_at :
         \A new \in jobs'[id].next_run_at : ~(new < old)
    ]_vars

\* C40: when loading the job or MarkRunStarted fails for a run the worker
\* picked, no subprocess is launched for it, no run record changes (the
\* picked run, scheduled when the call failed, is still scheduled with no
\* timestamps, output or error, and a poll can select it again), and the
\* worker goes on with the rest of the batch.  Under a cancelled context
\* both calls fail.
C40_FailedRunUntouched ==
  [][\A w \in WorkerIds :
       /\ (wk[w].pc \in {"getjob", "markstarted"} /\ wk'[w].err # "none") =>
            LET run == Head(wk[w].batch)
            IN /\ runs' = runs
               /\ (run.id \in DOMAIN runs /\ runs[run.id].status = RunStatusScheduled) =>
                    /\ runs'[run.id].status = RunStatusScheduled
                    /\ runs'[run.id].started_at = {}
                    /\ runs'[run.id].finished_at = {}
                    /\ runs'[run.id].output = ""
                    /\ runs'[run.id].error_msg = {}
                    /\ \E found \in GetRunsByStatus(RunStatusScheduled, MaxRuns)' :
                         \E i \in DOMAIN found : found[i] = run.id
               /\ wk'[w].cmd_env = {}
               /\ wk'[w].start = {}
               /\ wk'[w].batch = Tail(wk[w].batch)
               /\ wk'[w].pc = IF Tail(wk[w].batch) = <<>> THEN "idle" ELSE "getjob"
       /\ (/\ wk[w].pc \in {"getjob", "markstarted"}
           /\ wk[w].ctx = CtxCancelled
           /\ wk'[w].pc # wk[w].pc
           /\ wk'[w].pc # "stopped") => wk'[w].err # "none"
    ]_vars

\* MarkRunStarted failed under a live context and the worker is back at its
\* select; the run it had picked is still as CreateRun wrote it.
C40_Witness ==
  /\ wk[1].pc = "idle"
  /\ wk[1].ctx = CtxLive
  /\ wk[1].err = ErrMarkStarted
  /\ runs # <<>>
  /\ \A r \in DOMAIN runs :
       runs[r].status = RunStatusScheduled /\ runs[r].started_at = {}

====
